---- MODULE Spec2Model ----
(***************************************************************************)
(* A model of src/multi_strategy_convert.py: the text cleaner, the pypdf   *)
(* newline repair, the block segmenter, the field extractor and the        *)
(* three-backend harness.                                                  *)
(*                                                                         *)
(* A text is a sequence of lexemes.  One-character lexemes stand for       *)
(* themselves ("1", ".", ")", " ", "\n", ",", "-", "a", ...).  The Hangul  *)
(* literals the code tests for are written as one ASCII lexeme each, since *)
(* no operation of the code splits inside them:                            *)
(*   "KW" = 키워드   "HW" = 회화적   "SM" = 설명   "SJ" = 실전           *)
(*   "SD" = 상담     "TIP" = TIP                                           *)
(*   "S" = 상  "J" = 중  "H" = 하          (the rating symbols)            *)
(*   "N1" = "사랑 돈 사업"  "N2" = "승진 취업 매매"  "N3" = "사랑돈사업"  *)
(*   "Ace", "Cup" = two words of the header vocabulary of line 60          *)
(***************************************************************************)
EXTENDS Integers, Sequences, FiniteSets, TLC

VARIABLES
    pc,        \* where the run is
    text,      \* the text given to the function under study
    out,       \* its result
    out2,      \* the result of the step after it
    given,     \* what the text was assembled from
    tasks,     \* the three run_strategy tasks of the worker pool
    results,   \* main's `results` dictionary
    arrivals,  \* the order in which as_completed yielded the tasks
    report     \* the rows printed and the files written, in order

vars == <<pc, text, out, out2, given, tasks, results, arrivals, report>>

NL == "\n"

\* \s of the re module, and the characters str.strip() removes
IsSpace(c) == c \in {" ", "\n", "\t"}

\* \d
IsDigit(c) == c \in {"0", "1", "2", "3", "4", "5", "6", "7", "8", "9"}

\* [상중하]
IsRating(c) == c \in {"S", "J", "H"}

\* all sequences over A of length at most n
SeqsUpTo(A, n) == UNION {[1..k -> A] : k \in 0..n}

(***************************************************************************)
(* str primitives                                                          *)
(***************************************************************************)

\* sub occurs in s at position i (1-based)
OccursAt(s, sub, i) ==
    /\ i >= 1
    /\ i + Len(sub) - 1 <= Len(s)
    /\ \A k \in 1..Len(sub) : s[i + k - 1] = sub[k]

\* `sub in s`
Contains(s, sub) == \E i \in 1..(Len(s) + 1) : OccursAt(s, sub, i)

\* s.find(sub, from): least position >= from where sub occurs, 0 if none
RECURSIVE FindFrom(_, _, _)
FindFrom(s, sub, from) ==
    IF from + Len(sub) - 1 > Len(s) THEN 0
    ELSE IF OccursAt(s, sub, from) THEN from
    ELSE FindFrom(s, sub, from + 1)

\* s.lstrip()
RECURSIVE LStrip(_)
LStrip(s) ==
    IF s # <<>> /\ IsSpace(Head(s)) THEN LStrip(Tail(s)) ELSE s

\* s.rstrip()
RECURSIVE RStrip(_)
RStrip(s) ==
    IF s # <<>> /\ IsSpace(s[Len(s)]) THEN RStrip(SubSeq(s, 1, Len(s) - 1)) ELSE s

\* s.strip()
Strip(s) == RStrip(LStrip(s))

\* s.split(sep) for a one-lexeme separator: always at least one piece
RECURSIVE SplitOn(_, _)
SplitOn(s, seps) ==
    LET hit == {i \in 1..Len(s) : s[i] \in seps}
    IN  IF hit = {} THEN <<s>>
        ELSE LET i == CHOOSE j \in hit : \A k \in hit : j <= k
             IN  <<SubSeq(s, 1, i - 1)>> \o SplitOn(SubSeq(s, i + 1, Len(s)), seps)

\* "\n".join(lines)
RECURSIVE JoinNL(_)
JoinNL(lines) ==
    IF lines = <<>> THEN <<>>
    ELSE IF Len(lines) = 1 THEN lines[1]
    ELSE lines[1] \o <<NL>> \o JoinNL(Tail(lines))

\* the whitespace run starting at position i ends before this position
RECURSIVE SkipSpace(_, _)
SkipSpace(s, i) ==
    IF i <= Len(s) /\ IsSpace(s[i]) THEN SkipSpace(s, i + 1) ELSE i

\* the digit run starting at position i ends before this position
RECURSIVE SkipDigits(_, _)
SkipDigits(s, i) ==
    IF i <= Len(s) /\ IsDigit(s[i]) THEN SkipDigits(s, i + 1) ELSE i

(***************************************************************************)
(* clean_text                                                              *)
(***************************************************************************)

\* line 33 and line 35: the three fixed noise phrases
HasNoise(line) ==
    \E i \in 1..Len(line) : line[i] \in {"N1", "N2", "N3"}

\* line 40: re.match(r'^\s*[상중하](\s+[상중하])+\s*$', line), as the automaton
\* of the expression run over the line from state q:
\*   0 leading space; 1 after the first symbol; 2 space after it;
\*   3 after a second or later symbol; 4 space after that.
RECURSIVE RatingRun(_, _, _)
RatingRun(line, i, q) ==
    IF i > Len(line) THEN q \in {3, 4}
    ELSE LET c == line[i]
         IN  CASE q = 0 /\ IsSpace(c)  -> RatingRun(line, i + 1, 0)
               [] q = 0 /\ IsRating(c) -> RatingRun(line, i + 1, 1)
               [] q = 1 /\ IsSpace(c)  -> RatingRun(line, i + 1, 2)
               [] q = 2 /\ IsSpace(c)  -> RatingRun(line, i + 1, 2)
               [] q = 2 /\ IsRating(c) -> RatingRun(line, i + 1, 3)
               [] q = 3 /\ IsSpace(c)  -> RatingRun(line, i + 1, 4)
               [] q = 4 /\ IsSpace(c)  -> RatingRun(line, i + 1, 4)
               [] q = 4 /\ IsRating(c) -> RatingRun(line, i + 1, 3)
               [] OTHER -> FALSE

\* the expression of line 40 without its leading \s*
RatingSpaced_NoLead(line) ==
    line # <<>> /\ IsRating(line[1]) /\ RatingRun(line, 2, 1)

RatingSpaced(line) == RatingRun(line, 1, 0)

\* the {5,} of line 43
ClumpMin == 5

\* line 43 without the strip() of the line
RatingClumped_NoStrip(line) ==
    Len(line) >= ClumpMin /\ \A i \in 1..Len(line) : IsRating(line[i])

\* line 43: re.match(r'^[상중하]{5,}$', line.strip())
RatingClumped(line) ==
    LET t == Strip(line)
    IN  Len(t) >= ClumpMin /\ \A i \in 1..Len(t) : IsRating(t[i])

\* lines 32-46: the loop's `continue` conditions
Dropped(line) == HasNoise(line) \/ RatingSpaced(line) \/ RatingClumped(line)

\* lines 31-46: cleaned_lines
RECURSIVE cleaned_lines(_)
cleaned_lines(lines) ==
    IF lines = <<>> THEN <<>>
    ELSE (IF Dropped(Head(lines)) THEN <<>> ELSE <<Head(lines)>>)
         \o cleaned_lines(Tail(lines))

clean_text(t) ==
    IF t = <<>> THEN <<>>
    ELSE Strip(JoinNL(cleaned_lines(SplitOn(t, {NL}))))

(***************************************************************************)
(* The variables a specification of one function leaves alone              *)
(***************************************************************************)
HarnessIdle ==
    /\ tasks = <<>>
    /\ results = <<>>
    /\ arrivals = <<>>
    /\ report = <<>>

IdleHarness == HarnessIdle /\ given = <<>>

HarnessUnchanged == UNCHANGED <<given, tasks, results, arrivals, report>>

(***************************************************************************)
(* SpecClean: clean_text applied to a text, then to its own result         *)
(***************************************************************************)
MaxCleanLen == 6

CleanAlphabet == {"S", " ", "\n", "a", "N1"}

InitClean ==
    /\ text \in SeqsUpTo(CleanAlphabet, MaxCleanLen)
    /\ pc = "start"
    /\ out = <<>>
    /\ out2 = <<>>
    /\ IdleHarness

CleanOnce ==
    /\ pc = "start"
    /\ out' = clean_text(text)
    /\ pc' = "cleaned"
    /\ UNCHANGED <<text, out2>>
    /\ HarnessUnchanged

CleanAgain ==
    /\ pc = "cleaned"
    /\ out2' = clean_text(out)
    /\ pc' = "recleaned"
    /\ UNCHANGED <<text, out>>
    /\ HarnessUnchanged

NextClean == CleanOnce \/ CleanAgain

SpecClean == InitClean /\ [][NextClean]_vars

\* C2: clean_text is idempotent: cleaning a cleaned text changes nothing.
C2_CleanIdempotent == pc = "recleaned" => out2 = out

\* C2's case: a text that starts with whitespace, so that the final trim
\* changes its first surviving line, with a line dropped as well, cleaned twice.
C2_Witness ==
    /\ pc = "recleaned"
    /\ Len(text) >= 4
    /\ IsSpace(text[1])
    /\ out # <<>>
    /\ \E i \in 1..Len(SplitOn(text, {NL})) : Dropped(SplitOn(text, {NL})[i])

\* the whitespace-separated tokens of a line, in order
RECURSIVE Tokens(_)
Tokens(s) ==
    LET t == LStrip(s)
        gaps == {i \in 1..Len(t) : IsSpace(t[i])}
    IN  IF t = <<>> THEN <<>>
        ELSE IF gaps = {} THEN <<t>>
        ELSE LET g == CHOOSE i \in gaps : \A k \in gaps : i <= k
             IN  <<SubSeq(t, 1, g - 1)>> \o Tokens(SubSeq(t, g, Len(t)))

\* (a) of C3: the whole line is two or more one-symbol rating tokens
RowOfTokens(line) ==
    LET toks == Tokens(line)
    IN  /\ Len(toks) >= 2
        /\ \A i \in 1..Len(toks) : Len(toks[i]) = 1 /\ IsRating(toks[i][1])

\* (b) of C3: the whole line, trimmed, is five or more rating symbols
RowOfClump(line) ==
    LET toks == Tokens(line)
    IN  /\ Len(toks) = 1
        /\ Len(toks[1]) >= 5
        /\ \A i \in 1..Len(toks[1]) : IsRating(toks[1][i])

KeptByC3(line) == ~HasNoise(line) /\ ~RowOfTokens(line) /\ ~RowOfClump(line)

Vocabulary ==
    {"Ace", "Two", "Three", "Four", "Five", "Six", "Seven", "Eight", "Nine",
     "Ten", "Page", "Knight", "Queen", "King", "Cup", "Wand", "Coin", "Sword"}

\* line 60: where a match of \d+\.\s+(?:\d+|Ace|...|검)\s+ that starts at
\* position i ends (the position after it), 0 when there is none. Every
\* quantifier is followed by a character outside its class, so the greedy
\* match is the only one.
HeaderLikeEnd(s, i) ==
    LET d == SkipDigits(s, i)
        w == SkipSpace(s, d + 1)
        n == IF w <= Len(s) /\ s[w] \in Vocabulary THEN w + 1 ELSE SkipDigits(s, w)
        f == SkipSpace(s, n)
    IN  IF /\ d > i
           /\ d <= Len(s) /\ s[d] = "."
           /\ w > d + 1
           /\ n > w
           /\ f > n
        THEN f ELSE 0

\* lines 63-66: where a match of <digit>\)\s*<word> that starts at i ends
MarkerEnd(s, i, digit, word) ==
    LET w == SkipSpace(s, i + 2)
    IN  IF /\ i + 1 <= Len(s)
           /\ s[i] = digit
           /\ s[i + 1] = ")"
           /\ w <= Len(s) /\ s[w] = word
        THEN w + 1 ELSE 0

PatternEnd(pat, s, i) ==
    CASE pat = "header" -> HeaderLikeEnd(s, i)
      [] pat = "1" -> MarkerEnd(s, i, "1", "KW")
      [] pat = "2" -> MarkerEnd(s, i, "2", "HW")
      [] pat = "3" -> MarkerEnd(s, i, "3", "SJ")
      [] pat = "4" -> MarkerEnd(s, i, "4", "SD")

\* (?<!\n) at position i
NotAfterNewline(s, i) == i = 1 \/ s[i - 1] # NL

\* re.sub(r'(?<!\n)(<pat>)', r'\n\1', s) from position i on: the leftmost
\* matches, none overlapping another
RECURSIVE InsertNewlines(_, _, _)
InsertNewlines(pat, s, i) ==
    IF i > Len(s) THEN <<>>
    ELSE LET e == IF NotAfterNewline(s, i) THEN PatternEnd(pat, s, i) ELSE 0
         IN  IF e > 0
             THEN <<NL>> \o SubSeq(s, i, e - 1) \o InsertNewlines(pat, s, e)
             ELSE <<s[i]>> \o InsertNewlines(pat, s, i + 1)

preprocess_pypdf(t) ==
    LET t0 == InsertNewlines("header", t, 1)
        t1 == InsertNewlines("1", t0, 1)
        t2 == InsertNewlines("2", t1, 1)
        t3 == InsertNewlines("3", t2, 1)
    IN  InsertNewlines("4", t3, 1)

(***************************************************************************)
(* SpecRepair: preprocess_pypdf applied to a text, then to its own result  *)
(***************************************************************************)
MaxRepairLen == 6

RepairAlphabet == {"1", ".", " ", "\n", ")", "KW", "a"}

InitRepair ==
    /\ text \in SeqsUpTo(RepairAlphabet, MaxRepairLen)
    /\ pc = "start"
    /\ out = <<>>
    /\ out2 = <<>>
    /\ IdleHarness

RepairOnce ==
    /\ pc = "start"
    /\ out' = preprocess_pypdf(text)
    /\ pc' = "repaired"
    /\ UNCHANGED <<text, out2>>
    /\ HarnessUnchanged

RepairAgain ==
    /\ pc = "repaired"
    /\ out2' = preprocess_pypdf(out)
    /\ pc' = "rerepaired"
    /\ UNCHANGED <<text, out>>
    /\ HarnessUnchanged

NextRepair == RepairOnce \/ RepairAgain

SpecRepair == InitRepair /\ [][NextRepair]_vars

\* a header starts at position i: the pattern of line 60, from the first
\* digit of its index
HeaderAt(s, i) == HeaderLikeEnd(s, i) > 0 /\ (i = 1 \/ ~IsDigit(s[i - 1]))

\* every header and every section-1 marker of s comes right after a newline
AllStartLines(s) ==
    \A i \in 1..Len(s) :
        (HeaderAt(s, i) \/ MarkerEnd(s, i, "1", "KW") > 0)
            => (i > 1 /\ s[i - 1] = NL)

\* C8: a text whose headers and markers all start lines is returned
\* unchanged, and repairing a repaired text changes nothing.
C8_RepairLeavesLineStartsAlone ==
    pc = "rerepaired" =>
        /\ AllStartLines(text) => out = text
        /\ out2 = out

(***************************************************************************)
(* parse_card_block                                                        *)
(***************************************************************************)

\* the literal "1) 키워드" of lines 84, 85 and 148
Marker1 == <<"1", ")", " ", "KW">>

\* the labels of lines 112 and 114
LabelDesc == <<"[", "HW", " ", "SM", "]">>
LabelPractical == <<"[", "SJ", " ", "SD", "]">>

\* line 80: re.sub(r'^\d+\.\s+', '', raw_header)
StripIndex(h) ==
    LET d == SkipDigits(h, 1)
        w == SkipSpace(h, d + 1)
    IN  IF d > 1 /\ d <= Len(h) /\ h[d] = "." /\ w > d + 1
        THEN SubSeq(h, w, Len(h))
        ELSE h

\* lines 72-85
card_name_of(block) ==
    LET lines == SplitOn(Strip(block), {NL})
        raw_header == Strip(lines[1])
        name == StripIndex(raw_header)
    IN  IF Contains(name, Marker1)
        THEN Strip(SubSeq(name, 1, FindFrom(name, Marker1, 1) - 1))
        ELSE name

\* where a match of <digit>\)\s*<w1>\s*<w2> that starts at i ends, 0 if none
LongMarkerEnd(s, i, digit, w1, w2) ==
    LET e == MarkerEnd(s, i, digit, w1)
        w == SkipSpace(s, e)
    IN  IF e > 0 /\ w <= Len(s) /\ s[w] = w2 THEN w + 1 ELSE 0

\* where the section's opening expression ends at its leftmost match in the
\* block (re.search), 0 when the block has none
RECURSIVE OpenEnd(_, _, _)
OpenEnd(sec, s, i) ==
    IF i > Len(s) THEN 0
    ELSE LET e == CASE sec = "1" -> MarkerEnd(s, i, "1", "KW")
                    [] sec = "2" -> LongMarkerEnd(s, i, "2", "HW", "SM")
                    [] sec = "3" -> LongMarkerEnd(s, i, "3", "SJ", "SD")
                    [] sec = "4" -> LongMarkerEnd(s, i, "4", "SD", "TIP")
         IN  IF e > 0 THEN e ELSE OpenEnd(sec, s, i + 1)

\* each section closed by the next section's marker only
Closers_NextOnly(sec) ==
    CASE sec = "1" -> {"2"}
      [] sec = "2" -> {"3"}
      [] sec = "3" -> {"4"}
      [] sec = "4" -> {}

\* the closing alternatives of lines 88, 104, 107 and 118, `$` aside
Closers(sec) ==
    CASE sec = "1" -> {"2", "3", "4"}
      [] sec = "2" -> {"3", "4"}
      [] sec = "3" -> {"4"}
      [] sec = "4" -> {}

\* one of the section's closing alternatives matches at position j: a later
\* marker, or `$` (the end, or the newline that ends the block)
ClosesAt(sec, s, j) ==
    \/ j > Len(s)
    \/ j = Len(s) /\ s[j] = NL
    \/ \E c \in Closers(sec) : PatternEnd(c, s, j) > 0

\* (.*?) under re.DOTALL: the capture ends at the first position, from the
\* opening's end on, where a closing alternative matches
RECURSIVE CaptureEnd(_, _, _)
CaptureEnd(sec, s, j) ==
    IF ClosesAt(sec, s, j) THEN j ELSE CaptureEnd(sec, s, j + 1)

\* group(1) of the section's search, "" when the search finds nothing
Captured(sec, s) ==
    LET e == OpenEnd(sec, s, 1)
    IN  IF e = 0 THEN <<>> ELSE SubSeq(s, e, CaptureEnd(sec, s, e) - 1)

\* lines 97-101: one piece of the keyword text
Keyword(piece) ==
    LET k == Strip(piece)
    IN  IF k # <<>> /\ k[1] = "-" THEN Strip(Tail(k)) ELSE k

\* lines 93-101
RECURSIVE KeywordsOf(_)
KeywordsOf(pieces) ==
    IF pieces = <<>> THEN <<>>
    ELSE (IF Keyword(Head(pieces)) # <<>> THEN <<Keyword(Head(pieces))>> ELSE <<>>)
         \o KeywordsOf(Tail(pieces))

keywords_list_of(block) ==
    LET keywords_text == clean_text(Captured("1", block))
    IN  IF keywords_text = <<>> THEN <<>>
        ELSE KeywordsOf(SplitOn(keywords_text, {",", ".", NL}))

\* lines 104-115
meaning_up_of(block) ==
    LET desc_text == clean_text(Captured("2", block))
        practical_text == clean_text(Captured("3", block))
    IN  Strip((IF desc_text # <<>>
               THEN LabelDesc \o <<NL>> \o desc_text \o <<NL, NL>> ELSE <<>>)
              \o (IF practical_text # <<>>
                  THEN LabelPractical \o <<NL>> \o practical_text ELSE <<>>))

\* lines 118-119
meaning_down_of(block) == clean_text(Captured("4", block))

\* the check of lines 121-122 left out
NothingUsable_Never(meaning_up, meaning_down, keywords) == FALSE

\* lines 121-122
NothingUsable(meaning_up, meaning_down, keywords) ==
    meaning_up = <<>> /\ meaning_down = <<>> /\ keywords = <<>>

\* parse_card_block: <<>> for None, <<record>> for a record
parse_card_block(block) ==
    LET meaning_up == meaning_up_of(block)
        meaning_down == meaning_down_of(block)
        keywords == keywords_list_of(block)
    IN  IF NothingUsable(meaning_up, meaning_down, keywords) THEN <<>>
        ELSE <<[card_name |-> card_name_of(block),
                meaning_up |-> meaning_up,
                meaning_down |-> meaning_down,
                keywords |-> keywords]>>

(***************************************************************************)
(* parse_full_text                                                         *)
(***************************************************************************)

\* the last position in lo..hi that holds no newline, 0 when there is none
RECURSIVE LastNonNewline(_, _, _)
LastNonNewline(s, lo, hi) ==
    IF hi < lo THEN 0
    ELSE IF s[hi] # NL THEN hi
    ELSE LastNonNewline(s, lo, hi - 1)

\* the first newline at or after position i, Len(s) + 1 when there is none
RECURSIVE LineEnd(_, _)
LineEnd(s, i) ==
    IF i > Len(s) \/ s[i] = NL THEN i ELSE LineEnd(s, i + 1)

\* line 138: where a match of \n(\s*\d+\.\s+[^\n]+) that starts at the newline
\* at position i ends, 0 when there is none. \s matches newlines too; when
\* the whitespace after the period runs to the end of the text, \s+ gives
\* characters back until [^\n]+ finds one that is no newline.
HeaderMatchEnd(s, i) ==
    LET a == SkipSpace(s, i + 1)
        d == SkipDigits(s, a)
        q == SkipSpace(s, d + 1)
        k == IF q <= Len(s) THEN q ELSE LastNonNewline(s, d + 2, Len(s))
    IN  IF /\ s[i] = NL
           /\ d > a
           /\ d <= Len(s) /\ s[d] = "."
           /\ q > d + 1
           /\ k > 0
        THEN LineEnd(s, k) ELSE 0

\* line 138: re.split with its capturing group, scanning from position i with
\* the current gap starting at g: gap, header, gap, header, ..., gap
RECURSIVE SplitHeaders(_, _, _)
SplitHeaders(s, i, g) ==
    IF i > Len(s) THEN <<SubSeq(s, g, Len(s))>>
    ELSE LET e == HeaderMatchEnd(s, i)
         IN  IF e > 0
             THEN <<SubSeq(s, g, i - 1), SubSeq(s, i + 1, e - 1)>>
                  \o SplitHeaders(s, e, e)
             ELSE SplitHeaders(s, i + 1, g)

\* lines 143-145
full_block(parts, i) == Strip(parts[i]) \o <<NL>> \o parts[i + 1]

\* line 148
IsCardBlock(block) == Contains(block, Marker1)

\* lines 142-149: the blocks kept, from part i on
RECURSIVE BlocksFrom(_, _)
BlocksFrom(parts, i) ==
    IF i > Len(parts) THEN <<>>
    ELSE (IF IsCardBlock(full_block(parts, i)) THEN <<full_block(parts, i)>> ELSE <<>>)
         \o BlocksFrom(parts, i + 2)

\* lines 134-149: `blocks`
card_blocks(t) == BlocksFrom(SplitHeaders(<<NL>> \o t, 1, 1), 2)

\* lines 151-157
RECURSIVE RecordsOf(_)
RecordsOf(blocks) ==
    IF blocks = <<>> THEN <<>>
    ELSE parse_card_block(Head(blocks)) \o RecordsOf(Tail(blocks))

parse_full_text(t) == RecordsOf(card_blocks(t))

(***************************************************************************)
(* SpecParse: parse_full_text on a document, its two loops as two steps    *)
(***************************************************************************)
MaxDocLines == 3

\* "1. a" | "2. b 1) 키워드 k" | "7." | "1) 키워드" | "k, m" | "상 상" | ""
DocLines ==
    { <<"1", ".", " ", "a">>,
      <<"2", ".", " ", "b", " ", "1", ")", " ", "KW", " ", "k">>,
      <<"7", ".">>,
      <<"1", ")", " ", "KW">>,
      <<"k", ",", " ", "m">>,
      <<"S", " ", "S">>,
      <<>> }

Documents == {JoinNL(ls) : ls \in SeqsUpTo(DocLines, MaxDocLines)}

InitParse ==
    /\ text \in Documents
    /\ pc = "start"
    /\ out = <<>>
    /\ out2 = <<>>
    /\ IdleHarness

\* lines 134-149
Segment ==
    /\ pc = "start"
    /\ out' = card_blocks(text)
    /\ pc' = "segmented"
    /\ UNCHANGED <<text, out2>>
    /\ HarnessUnchanged

\* lines 151-157
Extract ==
    /\ pc = "segmented"
    /\ out2' = RecordsOf(out)
    /\ pc' = "parsed"
    /\ UNCHANGED <<text, out>>
    /\ HarnessUnchanged

NextParse == Segment \/ Extract

SpecParse == InitParse /\ [][NextParse]_vars

\* every section of the block is empty once cleaned
AllSectionsEmpty(block) ==
    \A sec \in {"1", "2", "3", "4"} : clean_text(Captured(sec, block)) = <<>>

\* C1: every record has keywords, meaning_up or meaning_down non-empty, and
\* a block whose four sections are all empty after cleaning yields None and
\* no record.
C1_RecordsHaveContent ==
    pc = "parsed" =>
        /\ \A i \in 1..Len(out2) :
              \/ out2[i].keywords # <<>>
              \/ out2[i].meaning_up # <<>>
              \/ out2[i].meaning_down # <<>>
        /\ \A k \in 1..Len(out) :
              AllSectionsEmpty(out[k]) => parse_card_block(out[k]) = <<>>
        /\ Len(out2) <= Cardinality({k \in 1..Len(out) : ~AllSectionsEmpty(out[k])})

\* C1's case: a block with a header and the marker but nothing in its
\* sections was segmented and dropped, beside a block that gave a record.
C1_Witness ==
    /\ pc = "parsed"
    /\ \E k \in 1..Len(out) : AllSectionsEmpty(out[k])
    /\ Len(out2) >= 1

\* the lines of the document
DocLinesOf(t) == SplitOn(t, {NL})

\* a header line: digits, a period, whitespace and a label, on one line
IsHeaderLine(l) ==
    LET h == Strip(l)
        d == SkipDigits(h, 1)
    IN  /\ d > 1
        /\ d + 1 < Len(h)
        /\ h[d] = "."
        /\ h[d + 1] \in {" ", "\t"}

HeaderIdx(t) == {i \in 1..Len(DocLinesOf(t)) : IsHeaderLine(DocLinesOf(t)[i])}

\* the lines of header line i's span: up to the next header line
SpanIdx(t, i) ==
    {j \in i..Len(DocLinesOf(t)) : \A h \in HeaderIdx(t) : h > i => j < h}

SpanHasMarker(t, i) ==
    \E j \in SpanIdx(t, i) : Contains(DocLinesOf(t)[j], Marker1)

\* the k-th element of a set of numbers, in increasing order
Nth(S, k) == CHOOSE x \in S : Cardinality({y \in S : y < x}) = k - 1

\* the first line of a block
FirstLine(block) == SplitOn(block, {NL})[1]

\* C4: when each of the N header lines has the marker in its span, there
\* are N blocks and the i-th block begins with the i-th header line (stated
\* for N >= 1).
C4_OneBlockPerHeader ==
    (/\ pc = "segmented"
     /\ HeaderIdx(text) # {}
     /\ \A i \in HeaderIdx(text) : SpanHasMarker(text, i)) =>
        /\ Len(out) = Cardinality(HeaderIdx(text))
        /\ \A k \in 1..Len(out) :
              FirstLine(out[k]) = Strip(DocLinesOf(text)[Nth(HeaderIdx(text), k)])

\* the line occurs once in the document
UniqueLine(t, j) ==
    \A j2 \in 1..Len(DocLinesOf(t)) :
        Strip(DocLinesOf(t)[j2]) = Strip(DocLinesOf(t)[j]) => j2 = j

\* the block has this line among its lines
BlockHasLine(block, l) ==
    \E n \in 1..Len(SplitOn(block, {NL})) : Strip(SplitOn(block, {NL})[n]) = Strip(l)

\* C5: a header line whose span has no marker gives no block, and no line
\* of its span is part of any block that is kept.
C5_UnmarkedSpanExcluded ==
    pc = "segmented" =>
        \A i \in HeaderIdx(text) :
            ~SpanHasMarker(text, i) =>
                \A j \in SpanIdx(text, i) :
                    (Strip(DocLinesOf(text)[j]) # <<>> /\ UniqueLine(text, j)) =>
                        \A k \in 1..Len(out) : ~BlockHasLine(out[k], DocLinesOf(text)[j])

\* the name starts with a numeric index: digits, then a period
StartsWithIndex(name) ==
    LET d == SkipDigits(name, 1)
    IN  d > 1 /\ d <= Len(name) /\ name[d] = "."

\* C7: a record's card_name has no whitespace around it, no leading numeric
\* index and no first-section marker in it.
C7_CardNameIsLabel ==
    pc = "parsed" =>
        \A i \in 1..Len(out2) :
            /\ out2[i].card_name = Strip(out2[i].card_name)
            /\ ~StartsWithIndex(out2[i].card_name)
            /\ ~Contains(out2[i].card_name, Marker1)

(***************************************************************************)
(* SpecBlock: parse_card_block on a block with its sections in order       *)
(***************************************************************************)
MaxItems == 2

\* "1. a" | "12. Ace b"
BlockHeaders == { <<"1", ".", " ", "a">>, <<"1", "2", ".", " ", "Ace", " ", "b">> }

\* "k" | "m k"
Items == { <<"k">>, <<"m", " ", "k">> }

\* a section's body: none | one word | two lines
Body(letter, shape) ==
    CASE shape = 0 -> <<>>
      [] shape = 1 -> <<letter>>
      [] shape = 2 -> <<letter, " ", letter, NL, letter>>

SectionLine(sec) ==
    CASE sec = "2" -> <<"2", ")", " ", "HW", " ", "SM">>
      [] sec = "3" -> <<"3", ")", " ", "SJ", " ", "SD">>
      [] sec = "4" -> <<"4", ")", " ", "SD", " ", "TIP">>

\* the keyword items on one line, separated by commas
RECURSIVE CommaList(_)
CommaList(items) ==
    IF Len(items) = 1 THEN items[1]
    ELSE items[1] \o <<",", " ">> \o CommaList(Tail(items))

\* the keyword items as bullets, one per line
RECURSIVE BulletList(_)
BulletList(items) ==
    IF Len(items) = 1 THEN <<"-", " ">> \o items[1]
    ELSE <<"-", " ">> \o items[1] \o <<NL>> \o BulletList(Tail(items))

SectionText(sec, body) ==
    IF body = <<>> THEN <<>> ELSE <<NL>> \o SectionLine(sec) \o <<NL>> \o body

\* the block: header line, section 1 with its items, then the sections present
BlockOf(g) ==
    g.header \o <<NL>> \o Marker1 \o <<NL>>
    \o (IF g.bullets THEN BulletList(g.items) ELSE CommaList(g.items))
    \o SectionText("2", g.desc) \o SectionText("3", g.practical)
    \o SectionText("4", g.tip)

InitBlock ==
    /\ given \in [header : BlockHeaders,
                  items : {is \in SeqsUpTo(Items, MaxItems) : is # <<>>},
                  bullets : BOOLEAN,
                  desc : {Body("d", n) : n \in 0..2},
                  practical : {Body("p", n) : n \in 0..2},
                  tip : {Body("t", n) : n \in 0..2}]
    /\ text = BlockOf(given)
    /\ pc = "start"
    /\ out = <<>>
    /\ out2 = <<>>
    /\ HarnessIdle

ExtractBlock ==
    /\ pc = "start"
    /\ out' = parse_card_block(text)
    /\ pc' = "extracted"
    /\ UNCHANGED <<text, out2>>
    /\ HarnessUnchanged

NextBlock == ExtractBlock

SpecBlock == InitBlock /\ [][NextBlock]_vars

\* meaning_up as C6 states it
ExpectedUp(g) ==
    CASE g.desc # <<>> /\ g.practical # <<>> ->
            LabelDesc \o <<NL>> \o g.desc \o <<NL, NL>>
            \o LabelPractical \o <<NL>> \o g.practical
      [] g.desc # <<>> /\ g.practical = <<>> -> LabelDesc \o <<NL>> \o g.desc
      [] g.desc = <<>> /\ g.practical # <<>> -> LabelPractical \o <<NL>> \o g.practical
      [] OTHER -> <<>>

\* C6: for a block with its sections in order, the record has the section-1
\* items as keywords, the labelled sections 2 and 3 that are present as
\* meaning_up, and section 4 as meaning_down; no field holds another's text.
C6_FieldsFromOwnSections ==
    pc = "extracted" =>
        /\ Len(out) = 1
        /\ out[1].keywords = given.items
        /\ out[1].meaning_up = ExpectedUp(given)
        /\ out[1].meaning_down = given.tip

\* C6's case: section 2 is missing, sections 3 and 4 are there, and two
\* keyword items were extracted.
C6_Witness ==
    /\ pc = "extracted"
    /\ given.desc = <<>>
    /\ given.practical # <<>>
    /\ given.tip # <<>>
    /\ Len(out) = 1
    /\ Len(out[1].keywords) = 2

(***************************************************************************)
(* main: the three strategies run by the worker pool, their results        *)
(* collected as they complete, then reported in the fixed order            *)
(***************************************************************************)
NumPages == 2

\* lines 238-242, and the list of line 268
Strategies == <<"pdfplumber", "fitz", "pypdf">>

Names == {Strategies[i] : i \in 1..Len(Strategies)}

\* what a reader may give for a page: nothing, or "1. Ace a 1) 키워드 k"
PageTexts == { <<>>, <<"1", ".", " ", "Ace", " ", "a", " ", "1", ")", " ", "KW", " ", "k">> }

\* time.time() differences, as read from the clock
Durations == {1, 2}

\* lines 167-169, 182-184 and 197-201: one page added to full_text
AddPage(name, full_text, t) ==
    IF t = <<>> THEN full_text
    ELSE full_text \o (IF name = "pypdf" THEN preprocess_pypdf(t) ELSE t) \o <<NL>>

\* the handler falling through to the parse of the text read so far
OnReadError_ParsesPartial(full_text) == parse_full_text(full_text)

\* lines 170-172, 185-187 and 202-204: what the strategy returns when page
\* reading raises
OnReadError(full_text) == <<>>

\* the result stored under the name at the arrival's place in the list
ResultKey_ByArrival(name, arrived) == Strategies[arrived + 1]

\* lines 255-256: the key the collected result is stored under
ResultKey(name, arrived) == name

InitMain ==
    /\ pc = "running"
    /\ text = <<>>
    /\ out = <<>>
    /\ out2 = <<>>
    /\ given = <<>>
    /\ tasks = [n \in Names |->
                  [pc |-> "submitted", page |-> 0, seen |-> <<>>, full_text |-> <<>>,
                   raised |-> FALSE, data |-> <<>>, duration |-> 0]]
    /\ results = <<>>
    /\ arrivals = <<>>
    /\ report = <<>>

MainUnchanged == UNCHANGED <<pc, text, out, out2, given>>

\* lines 165, 180, 195: the document opens
Open(n) ==
    /\ tasks[n].pc = "submitted"
    /\ tasks' = [tasks EXCEPT ![n].pc = "reading"]
    /\ UNCHANGED <<results, arrivals, report>>
    /\ MainUnchanged

\* one turn of the page loop
ReadPage(n) ==
    /\ tasks[n].pc = "reading"
    /\ tasks[n].page < NumPages
    /\ \E t \in PageTexts :
          tasks' = [tasks EXCEPT ![n].page = @ + 1,
                                 ![n].seen = Append(@, t),
                                 ![n].full_text = AddPage(n, @, t)]
    /\ UNCHANGED <<results, arrivals, report>>
    /\ MainUnchanged

\* opening the document or reading the next page raises: the strategy's
\* handler returns, and run_strategy returns its value with the duration
Raise(n) ==
    /\ \/ tasks[n].pc = "submitted"
       \/ tasks[n].pc = "reading" /\ tasks[n].page < NumPages
    /\ \E d \in Durations :
          tasks' = [tasks EXCEPT ![n].pc = "returned",
                                 ![n].raised = TRUE,
                                 ![n].data = OnReadError(tasks[n].full_text),
                                 ![n].duration = d]
    /\ UNCHANGED <<results, arrivals, report>>
    /\ MainUnchanged

\* lines 174, 189, 206 and 217-219: all pages read, the text is parsed
Finish(n) ==
    /\ tasks[n].pc = "reading"
    /\ tasks[n].page = NumPages
    /\ \E d \in Durations :
          tasks' = [tasks EXCEPT ![n].pc = "returned",
                                 ![n].data = parse_full_text(tasks[n].full_text),
                                 ![n].duration = d]
    /\ UNCHANGED <<results, arrivals, report>>
    /\ MainUnchanged

\* lines 252-256: as_completed yields a finished task, its result is stored
Collect(n) ==
    /\ tasks[n].pc = "returned"
    /\ \A i \in 1..Len(arrivals) : arrivals[i] # n
    /\ results' = [k \in DOMAIN results \cup {ResultKey(n, Len(arrivals))} |->
                      IF k = ResultKey(n, Len(arrivals))
                      THEN [data |-> tasks[n].data, duration |-> tasks[n].duration]
                      ELSE results[k]]
    /\ arrivals' = Append(arrivals, n)
    /\ UNCHANGED <<tasks, report>>
    /\ MainUnchanged

\* line 269: results.get(name, {"data": [], "duration": 0})
ResultsGet(name) ==
    IF name \in DOMAIN results THEN results[name] ELSE [data |-> <<>>, duration |-> 0]

\* lines 268-279: one turn of the report loop, after the pool has drained
Report ==
    /\ pc = "running"
    /\ Len(arrivals) = Len(Strategies)
    /\ LET name == Strategies[Len(report) + 1]
       IN  report' = Append(report, [name |-> name,
                                     data |-> ResultsGet(name).data,
                                     duration |-> ResultsGet(name).duration])
    /\ pc' = IF Len(report) + 1 = Len(Strategies) THEN "done" ELSE "running"
    /\ UNCHANGED <<text, out, out2, given, tasks, results, arrivals>>

NextMain ==
    \/ \E n \in Names : Open(n)
    \/ \E n \in Names : ReadPage(n)
    \/ \E n \in Names : Raise(n)
    \/ \E n \in Names : Finish(n)
    \/ \E n \in Names : Collect(n)
    \/ Report

SpecMain == InitMain /\ [][NextMain]_vars

\* the document text of a backend whose reader gave these pages
RECURSIVE TextOfPages(_, _)
TextOfPages(name, pages) ==
    IF pages = <<>> THEN <<>>
    ELSE (IF Head(pages) = <<>> THEN <<>>
          ELSE (IF name = "pypdf" THEN preprocess_pypdf(Head(pages)) ELSE Head(pages))
               \o <<NL>>)
         \o TextOfPages(name, Tail(pages))

\* C9: a backend whose page reading raised has the empty record sequence,
\* each other backend has the records of its own pages, and the run ends
\* with one entry for each of the three backends.
C9_FailureIsolated ==
    pc = "done" =>
        /\ DOMAIN results = Names
        /\ \A n \in Names :
              IF tasks[n].raised
              THEN results[n].data = <<>>
              ELSE results[n].data = parse_full_text(TextOfPages(n, tasks[n].seen))

\* C9's case: one backend raised on its second page after reading a card on
\* its first, and the other two finished with records.
C9_Witness ==
    /\ pc = "done"
    /\ \E n \in Names :
          /\ tasks[n].raised
          /\ tasks[n].full_text # <<>>
          /\ \A m \in Names \ {n} : ~tasks[m].raised /\ results[m].data # <<>>

\* C10: once the pool is drained, results holds one entry per backend with
\* that backend's own records and duration, whatever the completion order,
\* and the report is written in the order pdfplumber, fitz, pypdf.
C10_CollectedByIdentity ==
    /\ Len(arrivals) = Len(Strategies) =>
          /\ DOMAIN results = Names
          /\ \A n \in Names :
                results[n] = [data |-> tasks[n].data, duration |-> tasks[n].duration]
    /\ \A k \in 1..Len(report) :
          report[k] = [name |-> Strategies[k],
                       data |-> tasks[Strategies[k]].data,
                       duration |-> tasks[Strategies[k]].duration]

\* C10's case: the tasks completed in the order pypdf, pdfplumber, fitz, with
\* different records and durations, and the report is written.
C10_Witness ==
    /\ pc = "done"
    /\ arrivals = <<"pypdf", "pdfplumber", "fitz">>
    /\ tasks["pypdf"].data # tasks["pdfplumber"].data
    /\ tasks["pdfplumber"].duration # tasks["fitz"].duration

====
